---- MODULE Spec2Model ----
(***************************************************************************)
(* A model of embykeeper's Emby connector                                  *)
(* (src/embykeeper/embywatcher/emby.py, class Connector):                  *)
(*                                                                         *)
(*   - the per-loop session pool (_sessions, _session_uses,                *)
(*     _get_session, _end_session, _reset_session),                        *)
(*   - the watchdog task that polls the pool and its cancellation path,    *)
(*   - get_stream_noreturn, the operation that uses the pool alone,        *)
(*   - the request operations (get, delete, _post, getJson) with _req,     *)
(*     _process_resp, login, login_if_needed and the credential cache.     *)
(*                                                                         *)
(* Spec is the pool and the watchdog; SpecReq is the request operations of *)
(* one loop.  One step of a coroutine is the code it runs between two      *)
(* suspension points (an await that really yields: a sleep, network I/O, a *)
(* session close, a contended lock).                                       *)
(***************************************************************************)
EXTENDS Integers, Sequences, FiniteSets, TLC

\* ------------------------------------------------------------------ bounds
NumContexts == 2      \* event loops (contexts) that use the connector
MaxOps == 2           \* operations in flight at once, over all contexts
MaxSessions == 2      \* AsyncSession objects constructed in one run
MaxFailures == 1      \* AsyncSession constructions that raise in one run
MaxResets == 1        \* _reset_session calls in one run
Tries == 3            \* self.tries, the attempts of one _req call
MaxTasks == 2         \* request operations of one connector instance
MaxTok == 2           \* distinct tokens the backend hands out
MaxRestarts == 1      \* connector instances constructed after the first
NumMessagers == 2     \* Messager instances of one class that call send
MaxTime == 11         \* seconds the clock of the messagers runs

\* ------------------------------------------------------- program constants
Timeout == 60         \* watchdog(timeout=60)
PollInterval == 10    \* asyncio.sleep(10); the divisor of timeout / 10

Contexts == 1..NumContexts
Ops == 1..MaxOps
\* The loop the connector was constructed in: asyncio.create_task(self.watchdog())
\* schedules the watchdog on the running loop.
WatchLoop == 1
\* Python's None as a dict value: no session object / no reference count.
None == 0
NoneUses == -1000
\* A falsy token or user id: None, or the "" of data.get("AccessToken", "").
NoToken == 0
Tokens == 1..MaxTok
\* Messager.send: need_sec = random.randint(5, 10)
MinNeed == 5
MaxNeed == 10
\* site_last_message_time = None
NoTime == -1
Messagers == 1..NumMessagers
Tasks == 1..MaxTasks
\* The loop the request operations run in.
ReqCtx == WatchLoop

VARIABLES
    keys,           \* the keys of _sessions and _session_uses, in insertion order
    sessions,       \* _sessions[c]: a session object id, or None
    session_uses,   \* _session_uses[c]: an integer, or NoneUses
    nextSid,        \* the id of the next AsyncSession object constructed
    closed,         \* session objects whose close() completed
    abandoned,      \* session objects whose close() was cut by wait_for's timeout
    nFail,          \* constructions that raised so far
    nReset,         \* _reset_session calls so far
    wpc,            \* where the watchdog task is
    counter,        \* the watchdog's local dict; 0 stands for "no entry"
    scanPos,        \* position of the dict iterator of the running for loop
    scanLen,        \* the dict's size when that iterator was created
    closing,        \* the context whose session the watchdog is closing, or 0
    lockHeld,       \* _session_locks[loop]: TRUE while some coroutine holds it
    op,             \* op[i]: the operation in slot i
    zeroPolls,      \* history: consecutive polls that saw _session_uses[c] = 0
    busyPolls,      \* history: consecutive polls that saw _session_uses[c] > 0
    seenNotBusy,    \* history: some poll saw _session_uses[c] not > 0
    reaped,         \* history: the watchdog's idle path began closing c's session
    atCancel,       \* history: the session objects registered at the cancellation
    username,       \* whether self.username is set
    token,          \* self.token (NoToken: None or "")
    userid,         \* self.userid (NoToken: None)
    api_key,        \* self.api_key
    attempt_login,  \* self.attempt_login
    cache,          \* the file emby_tokens/<host>_<username>.json
    hdrTok,         \* session.headers["X-Emby-Token"] of loop ReqCtx's session
    hdrAuth,        \* the Token= field of session.headers["X-Emby-Authorization"]
    valid,          \* the tokens the backend accepts
    task,           \* task[t]: the request operation of slot t
    nRestart,       \* connector instances constructed after the first
    now,            \* datetime.now(), in seconds
    site_last_message_time,  \* the class attribute of the messagers' class
    messager,       \* messager[m]: the send call of Messager instance m
    lastLive        \* history: "stored" / "unwritten" after a live login whose cache
                    \* write succeeded / raised OSError; "carried" when the process
                    \* before this one ended holding the token of a stored login

poolVars == <<keys, sessions, session_uses, nextSid, closed, abandoned, nFail,
              nReset, lockHeld>>
dogVars == <<wpc, counter, scanPos, scanLen, closing>>
histVars == <<zeroPolls, busyPolls, seenNotBusy, reaped, atCancel>>
msgVars == <<now, site_last_message_time, messager>>
reqVars == <<username, token, userid, api_key, attempt_login, cache, hdrTok,
             hdrAuth, valid, task, nRestart, lastLive, msgVars>>
vars == <<keys, sessions, session_uses, nextSid, closed, abandoned, nFail,
          nReset, wpc, counter, scanPos, scanLen, closing, lockHeld, op,
          zeroPolls, busyPolls, seenNotBusy, reaped, atCancel,
          username, token, userid, api_key, attempt_login, cache, hdrTok,
          hdrAuth, valid, task, nRestart, lastLive,
          now, site_last_message_time, messager>>

\* ----------------------------------------------------------------- helpers
HasKey(c) == \E i \in 1..Len(keys) : keys[i] = c

\* timeout / 10: the number of polls the idle counter has to reach.
\* counter >= timeout / 10 is a float comparison; counter * 10 >= timeout is
\* the same comparison in integers.
ThresholdReached(n) == n * PollInterval >= Timeout

Threshold == Timeout \div PollInterval

Cap(n) == IF n > Threshold + 1 THEN Threshold + 1 ELSE n

IdleOp == [pc |-> "idle", ctx |-> 0, sess |-> None]

\* A coroutine of loop c can run only while no other coroutine of that loop
\* is running: the watchdog, a task of WatchLoop, runs from its wake-up to
\* its next await without yielding.
CanRun(c) == c = WatchLoop => wpc \notin {"scan", "shutdown"}

\* async with await self._get_session_lock(): the lock of the running loop.
\* Only the watchdog keeps a lock over an await (the session's close()).
LockFree(c) == c = WatchLoop => ~lockHeld

\* The lock _get_session_lock returns in loop c is held over an await.
\* _session_locks is keyed by the running loop, and the one coroutine that
\* keeps a lock over an await is the watchdog, which runs in WatchLoop.
LockHeld(c) == c = WatchLoop /\ lockHeld

\* ------------------------------------------------------------ session pool
\* What the two dicts hold for loop c.  A key that is absent reads as
\* [has |-> FALSE, sess |-> None, uses |-> NoneUses].
Entry(c) == [has |-> HasKey(c), sess |-> sessions[c], uses |-> session_uses[c]]

\* A mutation of get_session: the lookup is skipped and a session is
\* constructed at every call.
get_session_always_new(e, sid, fails) ==
    IF fails
    THEN [e |-> e, ret |-> None, made |-> FALSE, raised |-> FALSE]
    ELSE [e |-> [has |-> TRUE, sess |-> sid, uses |-> 1], ret |-> sid,
          made |-> TRUE, raised |-> FALSE]

\* _get_session, on the entry e of the running loop.  sid is the object
\* AsyncSession(...) would construct, fails says that the construction
\* raises.  The body is inside try / except Exception: whatever it raises
\* (the construction, None += 1) is logged and the function falls off its
\* end, returning None.
\* The result: the entry afterwards (e), the value returned (ret), whether
\* an object was constructed (made), and whether the call raised (raised).
get_session(e, sid, fails) ==
    IF e.sess = None
    THEN IF fails
         THEN [e |-> e, ret |-> None, made |-> FALSE, raised |-> FALSE]
         ELSE [e |-> [has |-> TRUE, sess |-> sid, uses |-> 1],
               ret |-> sid, made |-> TRUE, raised |-> FALSE]
    ELSE IF e.uses = NoneUses
         THEN [e |-> e, ret |-> None, made |-> FALSE, raised |-> FALSE]
         ELSE [e |-> [e EXCEPT !.uses = @ + 1], ret |-> e.sess,
               made |-> FALSE, raised |-> FALSE]

\* _end_session raises KeyError (no key) or TypeError (None -= 1).
end_session_raises(e) == ~e.has \/ e.uses = NoneUses

\* _end_session: self._session_uses[loop_id] -= 1
end_session(e) == IF end_session_raises(e) THEN e ELSE [e EXCEPT !.uses = @ - 1]

\* _reset_session: self._sessions[loop_id] = None; self._session_uses[loop_id] = 0
reset_session(e) == [has |-> TRUE, sess |-> None, uses |-> 0]

\* Write entry e back for loop c.  A change of the reference count ends a
\* run of polls that saw it at 0.
Store(c, e) ==
    /\ keys' = IF e.has /\ ~HasKey(c) THEN Append(keys, c) ELSE keys
    /\ sessions' = [sessions EXCEPT ![c] = e.sess]
    /\ session_uses' = [session_uses EXCEPT ![c] = e.uses]
    /\ zeroPolls' = IF e.uses # session_uses[c]
                    THEN [zeroPolls EXCEPT ![c] = 0] ELSE zeroPolls

\* ------------------------------------------------------ get_stream_noreturn
\* get_stream_noreturn up to its first suspension: _get_session, then
\* session.stream(...).  When _get_session returned None, session.stream
\* raises AttributeError and the finally clause runs _end_session at once.
StreamStart(i, c, fails) ==
    /\ UNCHANGED reqVars
    /\ op[i].pc = "idle"
    /\ CanRun(c) /\ LockFree(c)
    /\ LET e == Entry(c)
           g == get_session(e, nextSid, fails)
       IN /\ fails => (e.sess = None /\ nFail < MaxFailures)
          /\ g.made => nextSid <= MaxSessions
          /\ nextSid' = IF g.made THEN nextSid + 1 ELSE nextSid
          /\ nFail' = IF fails THEN nFail + 1 ELSE nFail
          /\ IF g.ret = None
             THEN /\ Store(c, end_session(g.e))
                  /\ op' = op
             ELSE /\ Store(c, g.e)
                  /\ op' = [op EXCEPT ![i] = [pc |-> "stream", ctx |-> c,
                                              sess |-> g.ret]]
    /\ UNCHANGED <<closed, abandoned, nReset, lockHeld, dogVars,
                   busyPolls, seenNotBusy, reaped, atCancel>>

\* The stream ends, fails or is cancelled: the finally clause runs
\* _end_session (which waits for the loop's lock).
StreamEnd(i) ==
    /\ UNCHANGED reqVars
    /\ op[i].pc = "stream"
    /\ CanRun(op[i].ctx) /\ LockFree(op[i].ctx)
    /\ Store(op[i].ctx, end_session(Entry(op[i].ctx)))
    /\ op' = [op EXCEPT ![i] = IdleOp]
    /\ UNCHANGED <<nextSid, closed, abandoned, nFail, nReset, lockHeld, dogVars,
                   busyPolls, seenNotBusy, reaped, atCancel>>

\* _reset_session, called in loop c.
ResetSession(c) ==
    /\ UNCHANGED reqVars
    /\ nReset < MaxResets
    /\ CanRun(c) /\ LockFree(c)
    /\ Store(c, reset_session(Entry(c)))
    /\ nReset' = nReset + 1
    /\ UNCHANGED <<nextSid, closed, abandoned, nFail, lockHeld, dogVars, op,
                   busyPolls, seenNotBusy, reaped, atCancel>>

\* ---------------------------------------------------------------- watchdog
NotClosing == [ctx |-> 0, sess |-> None]

\* The polling loop is left (an exception, a cancellation): its local dict
\* counter is gone, and the history of its polls is closed.
LoopLeft ==
    /\ counter' = [c \in Contexts |-> 0]
    /\ zeroPolls' = [c \in Contexts |-> 0]
    /\ busyPolls' = [c \in Contexts |-> 0]
    /\ UNCHANGED <<seenNotBusy, reaped>>

\* A mutation of WatchdogIdle: the test u <= 0 is dropped.
WatchdogIdle_any(u) == u # NoneUses /\ u # 0

\* if u and u <= 0: None and 0 are falsy, so the test passes for u < 0 only.
WatchdogIdle(u) == u # NoneUses /\ u # 0 /\ u <= 0

\* What one inspection adds to the history of context s.
Observe(s, u) ==
    /\ zeroPolls' = [zeroPolls EXCEPT ![s] = IF u = 0 THEN Cap(@ + 1) ELSE 0]
    /\ busyPolls' = [busyPolls EXCEPT
                       ![s] = IF u # NoneUses /\ u > 0 THEN Cap(@ + 1) ELSE 0]
    /\ seenNotBusy' = [seenNotBusy EXCEPT ![s] = @ \/ ~(u # NoneUses /\ u > 0)]

\* await asyncio.sleep(10) returns; for s, u in self._session_uses.items()
\* creates the iterator.
WatchdogWake ==
    /\ UNCHANGED reqVars
    /\ wpc = "sleep"
    /\ wpc' = "scan"
    /\ scanPos' = 1
    /\ scanLen' = Len(keys)
    /\ UNCHANGED <<poolVars, counter, closing, op, histVars>>

\* One turn of the for loop: the iterator's next(), then the body up to the
\* await of session.close().  next() raises RuntimeError when the dict has
\* changed size since the iterator was created; that is raised outside the
\* inner try and is not a CancelledError, so it ends the task.
\* counter[s] = 0 stands for "s not in counter": the two differ only in
\* whether the threshold is tested at a count of 1.
WatchdogInspect ==
    /\ UNCHANGED reqVars
    /\ wpc = "scan"
    /\ IF Len(keys) # scanLen
       THEN /\ wpc' = "crashed"
            /\ scanPos' = 0 /\ scanLen' = 0
            /\ LoopLeft
            /\ UNCHANGED <<poolVars, closing>>
       ELSE IF scanPos > scanLen
       THEN /\ wpc' = "sleep"
            /\ scanPos' = 0 /\ scanLen' = 0
            /\ UNCHANGED <<poolVars, counter, closing, zeroPolls, busyPolls,
                           seenNotBusy, reaped>>
       ELSE LET s == keys[scanPos]
                u == session_uses[s]
            IN /\ IF WatchdogIdle(u)
                  THEN IF counter[s] > 0 /\ ThresholdReached(counter[s] + 1)
                       THEN \* async with the lock: counter[s] = 0,
                            \* session = self._sessions[s], await session.close()
                            IF sessions[s] = None
                            THEN \* None.close(): AttributeError, not caught
                                 /\ wpc' = "crashed"
                                 /\ scanPos' = 0 /\ scanLen' = 0
                                 /\ counter' = [c \in Contexts |-> 0]
                                 /\ zeroPolls' = [c \in Contexts |-> 0]
                                 /\ busyPolls' = [c \in Contexts |-> 0]
                                 /\ seenNotBusy' = [seenNotBusy EXCEPT ![s] = TRUE]
                                 /\ UNCHANGED <<closing, lockHeld, reaped>>
                            ELSE /\ Observe(s, u)
                                 /\ counter' = [counter EXCEPT ![s] = 0]
                                 /\ reaped' = [reaped EXCEPT ![s] = TRUE]
                                 /\ wpc' = "closing"
                                 /\ closing' = [ctx |-> s, sess |-> sessions[s]]
                                 /\ lockHeld' = TRUE
                                 /\ UNCHANGED <<scanPos, scanLen>>
                       ELSE /\ Observe(s, u)
                            /\ counter' = [counter EXCEPT ![s] = @ + 1]
                            /\ scanPos' = scanPos + 1
                            /\ UNCHANGED <<wpc, scanLen, closing, lockHeld, reaped>>
                  ELSE /\ Observe(s, u)
                       /\ counter' = [counter EXCEPT ![s] = 0]
                       /\ scanPos' = scanPos + 1
                       /\ UNCHANGED <<wpc, scanLen, closing, lockHeld, reaped>>
               /\ UNCHANGED <<keys, sessions, session_uses, nextSid, closed,
                              abandoned, nFail, nReset>>
    /\ UNCHANGED <<op, atCancel>>

\* session.close() returns: self._sessions[s] = None,
\* self._session_uses[s] = None, the lock is released, the loop goes on.
WatchdogCloseDone ==
    /\ UNCHANGED reqVars
    /\ wpc = "closing"
    /\ closed' = closed \cup {closing.sess}
    /\ sessions' = [sessions EXCEPT ![closing.ctx] = None]
    /\ session_uses' = [session_uses EXCEPT ![closing.ctx] = NoneUses]
    /\ zeroPolls' = [zeroPolls EXCEPT ![closing.ctx] = 0]
    /\ lockHeld' = FALSE
    /\ closing' = NotClosing
    /\ wpc' = "scan"
    /\ scanPos' = scanPos + 1
    /\ UNCHANGED <<keys, nextSid, abandoned, nFail, nReset, counter, scanLen, op,
                   busyPolls, seenNotBusy, reaped, atCancel>>

\* session.close() raises something that is neither TypeError nor KeyError
\* (in the loop) nor TimeoutError (in the cancellation handler): the
\* exception leaves the task.
WatchdogCloseRaises ==
    /\ UNCHANGED reqVars
    /\ wpc \in {"closing", "shutclose"}
    /\ wpc' = "crashed"
    /\ lockHeld' = FALSE
    /\ closing' = NotClosing
    /\ scanPos' = 0 /\ scanLen' = 0
    /\ LoopLeft
    /\ UNCHANGED <<keys, sessions, session_uses, nextSid, closed, abandoned,
                   nFail, nReset, op, atCancel>>

\* The task is cancelled: CancelledError is raised at the await the task is
\* suspended in (the sleep, or the close under the lock, which is released)
\* and the handler starts: for s in self._sessions.values().
WatchdogCancel ==
    /\ UNCHANGED reqVars
    /\ wpc \in {"sleep", "closing"}
    /\ wpc' = "shutdown"
    /\ lockHeld' = FALSE
    /\ closing' = NotClosing
    /\ scanPos' = 1
    /\ scanLen' = Len(keys)
    /\ LoopLeft
    /\ atCancel' = {sessions[c] : c \in Contexts} \ {None}
    /\ UNCHANGED <<keys, sessions, session_uses, nextSid, closed, abandoned,
                   nFail, nReset, op>>

\* One turn of the handler's for loop, up to await asyncio.wait_for(s.close(), 1).
ShutdownInspect ==
    /\ UNCHANGED reqVars
    /\ wpc = "shutdown"
    /\ IF Len(keys) # scanLen
       THEN wpc' = "crashed" /\ scanPos' = 0 /\ scanLen' = 0 /\ closing' = closing
       ELSE IF scanPos > scanLen
       THEN wpc' = "done" /\ scanPos' = 0 /\ scanLen' = 0 /\ closing' = closing
       ELSE IF sessions[keys[scanPos]] # None
       THEN /\ wpc' = "shutclose"
            /\ closing' = [ctx |-> keys[scanPos], sess |-> sessions[keys[scanPos]]]
            /\ UNCHANGED <<scanPos, scanLen>>
       ELSE /\ scanPos' = scanPos + 1
            /\ UNCHANGED <<wpc, scanLen, closing>>
    /\ UNCHANGED <<poolVars, counter, op, histVars>>

\* s.close() returns within the second.
ShutdownCloseDone ==
    /\ UNCHANGED reqVars
    /\ wpc = "shutclose"
    /\ closed' = closed \cup {closing.sess}
    /\ wpc' = "shutdown"
    /\ closing' = NotClosing
    /\ scanPos' = scanPos + 1
    /\ UNCHANGED <<keys, sessions, session_uses, nextSid, abandoned, nFail,
                   nReset, lockHeld, counter, scanLen, op, histVars>>

\* wait_for times out: except asyncio.TimeoutError: pass.
ShutdownCloseTimeout ==
    /\ UNCHANGED reqVars
    /\ wpc = "shutclose"
    /\ abandoned' = abandoned \cup {closing.sess}
    /\ wpc' = "shutdown"
    /\ closing' = NotClosing
    /\ scanPos' = scanPos + 1
    /\ UNCHANGED <<keys, sessions, session_uses, nextSid, closed, nFail,
                   nReset, lockHeld, counter, scanLen, op, histVars>>

\* ------------------------------------------------------- request execution
\* The connector's mutable state as one value, so that the code between two
\* suspension points is a composition of functions on it.
ReqState ==
    [token |-> token, userid |-> userid, api_key |-> api_key,
     flag |-> attempt_login, e |-> Entry(ReqCtx), hdrTok |-> hdrTok,
     hdrAuth |-> hdrAuth, cache |-> cache]

Commit(r) ==
    /\ token' = r.token
    /\ userid' = r.userid
    /\ api_key' = r.api_key
    /\ attempt_login' = r.flag
    /\ hdrTok' = r.hdrTok
    /\ hdrAuth' = r.hdrAuth
    /\ cache' = r.cache
    /\ Store(ReqCtx, r.e)

\* A mutation of cache_adopt: the cache file is never read.
cache_adopt_skip(r) == r

\* login_if_needed up to its second test of self.token: with no token, a
\* cache file that exists is read.  data["token"] is assigned before
\* data["userid"] is looked up, so an object without "userid" leaves the
\* token set when KeyError is caught; a file that cannot be read or parsed
\* changes nothing.
cache_adopt(r) ==
    IF r.token # NoToken THEN r
    ELSE IF r.cache.kind = "ok"
         THEN [r EXCEPT !.token = r.cache.token, !.userid = r.cache.userid,
                        !.api_key = r.cache.token]
    ELSE IF r.cache.kind = "tokenOnly"
         THEN [r EXCEPT !.token = r.cache.token]
    ELSE r

\* _req after login_if_needed, up to the first send: _get_session, then the
\* session's headers.  X-Emby-Token is written only for a truthy token.
req_enter(r) ==
    [r EXCEPT !.e = get_session(r.e, None, FALSE).e,
              !.hdrAuth = r.token,
              !.hdrTok = IF r.token # NoToken THEN r.token ELSE @]

\* A mutation of login_runs: the test of attempt_login is dropped.
login_runs_always(r) == username

\* login()'s guard: if not self.username or self.attempt_login: return
login_runs(r) == username /\ ~r.flag

\* login() past its guard, up to the send of the authentication request:
\* attempt_login = True; postJson -> _post: _get_session; _req:
\* login_if_needed (whose login() call returns at once, the flag being set),
\* _get_session and the headers.
login_enter(r) ==
    LET r1 == [r EXCEPT !.flag = TRUE, !.e = get_session(r.e, None, FALSE).e]
    IN req_enter(cache_adopt(r1))

\* The finally clause of an operation (get, delete, _post, getJson).
op_exit(r) == [r EXCEPT !.e = end_session(r.e)]

\* A mutation of login_exit: the finally clause of login() is dropped.
login_exit_keeps_flag(r) == op_exit(r)

\* login() is left by an exception of postJson: _post's finally clause, then
\* login's own.
login_exit(r) == [op_exit(r) EXCEPT !.flag = FALSE]

\* A mutation of login_store: the cache file is not written.
login_store_no_write(r, k, u, wfail) ==
    [op_exit(r) EXCEPT !.token = k, !.userid = u, !.api_key = k, !.flag = FALSE]

\* A mutation of login_store: login() returns without clearing the flag.
login_store_keeps_flag(r, k, u, wfail) ==
    [op_exit(r) EXCEPT !.token = k, !.userid = u, !.api_key = k,
                       !.cache = IF wfail THEN @
                                 ELSE [kind |-> "ok", token |-> k, userid |-> u]]

\* The rest of login() after postJson returned data with AccessToken k and
\* user id u: the fields, the cache file (an OSError of write_text is caught
\* and logged), the flag.
login_store(r, k, u, wfail) ==
    [op_exit(r) EXCEPT !.token = k, !.userid = u, !.api_key = k,
                       !.cache = IF wfail THEN @
                                 ELSE [kind |-> "ok", token |-> k, userid |-> u],
                       !.flag = FALSE]

\* The token a request carries to the backend: X-Emby-Token if the session
\* has that header, else the Token= field of X-Emby-Authorization.
Carried(r) == IF r.hdrTok # NoToken THEN r.hdrTok ELSE r.hdrAuth

\* A mutation of HasNextTry: the loop runs once more.
HasNextTry_extra(n) == n < Tries

\* A mutation of process_resp: the test for 502, 503 and 504 is dropped.
process_resp_returns_all(resp) == TRUE

\* _process_resp for a response that is not a 401: False (sleep, and the
\* loop goes on) for 502, 503 and 504, True (the response is returned) for
\* any other status.
process_resp(resp) == resp # "502"

\* for i in range(self.tries): there is an attempt after attempt n.
HasNextTry(n) == n + 1 < Tries

\* A task: where it is (pc), the
\* attempt index of its _req (i, -1 before the first send) and of the
\* authentication request's _req (j), who called login (from), the token
\* its request in flight carries, and how it ended.  History: relog counts
\* the logins _process_resp started, nsend the sends of the operation
\* (capped), hist says whether every response so far was a transport error
\* ("allErr"), a 502/503/504 ("all5xx"), or a 401 / a final or
\* token-bearing response ("clean"); last is the class of the last response
\* to its own request;
\* alone that no other task was in flight with it, last401 that its last
\* response was a 401.
IdleTask ==
    [pc |-> "idle", i |-> -1, j |-> 0, from |-> "none",
     carried |-> NoToken, result |-> "none",
     relog |-> 0, nsend |-> 0, hist |-> "none", alone |-> TRUE,
     last401 |-> FALSE, last |-> "none"]

InFlight(tk) == tk.pc \notin {"idle", "done"}

\* History is kept for the operations that ran alone.
Track(tk) ==
    IF tk.alone THEN tk
    ELSE [tk EXCEPT !.relog = 0, !.nsend = 0, !.hist = "mixed",
                    !.last401 = FALSE, !.last = "none",
                    !.i = IF tk.pc = "done" THEN -1 ELSE @]

SetTask(t, tk) == task' = [task EXCEPT ![t] = Track(tk)]

Done(tk, res) ==
    [tk EXCEPT !.pc = "done", !.result = res, !.j = 0, !.from = "none",
               !.carried = NoToken]

CapSends(n) == IF n > Tries + 1 THEN Tries + 1 ELSE n

\* The class of a response, as _req and _process_resp tell them apart: a
\* transport error, a 401, a 502/503/504, any other status.
Last(resp) ==
    IF resp = "err" THEN "err"
    ELSE IF resp = "401" THEN "401"
    ELSE IF resp = "502" THEN "5xx"
    ELSE "ok"

Hist(h, resp) ==
    IF resp = "err" THEN (IF h \in {"none", "allErr"} THEN "allErr" ELSE "mixed")
    ELSE IF resp = "502"
         THEN (IF h \in {"none", "all5xx"} THEN "all5xx" ELSE "mixed")
    ELSE IF resp \in {"401", "ok", "okTok"}
         THEN (IF h \in {"none", "clean"} THEN "clean" ELSE "mixed")
    ELSE "mixed"

UsesVal(u) == IF u = NoneUses THEN 0 ELSE u

\* The backend: a request that carries a token it accepts is answered, one
\* that does not is answered 401; either may fail in transport or get a
\* 502/503/504.  okText is a body that is not JSON, returned to an
\* operation that decodes it (getJson, postJson): the operation's kind is
\* read only there, so it is drawn there.
NormalResponses(tk) ==
    IF tk.carried \in valid
    THEN {"ok", "okText", "err", "502"}
    ELSE {"401", "err", "502"}

LoginResponses == {"401", "okTok", "okNoTok", "okText", "502", "err"}

reqFrame == <<closed, abandoned, nReset, lockHeld, dogVars, op, busyPolls,
              seenNotBusy, reaped, atCancel, username, msgVars>>

\* An operation is called, and runs to its first send: the operation's own
\* _get_session, then _req: login_if_needed (the cache, a live login), or
\* _get_session and the headers.  When _get_session returned None,
\* session.get raises AttributeError and the finally clause runs
\* _end_session.
OpStart(t, fails) ==
    /\ task[t].pc = "idle"
    /\ \A u \in Tasks : u < t => task[u].pc # "idle"
    /\ t > 1 => nRestart = 0
    /\ CanRun(ReqCtx) /\ LockFree(ReqCtx)
    /\ LET r0 == ReqState
           g == get_session(r0.e, nextSid, fails)
           tk0 == [IdleTask EXCEPT
                     !.alone = \A u \in Tasks : ~InFlight(task[u])]
           others == [u \in Tasks |->
                        IF InFlight(task[u]) THEN Track([task[u] EXCEPT !.alone = FALSE])
                        ELSE task[u]]
       IN /\ fails => (r0.e.sess = None /\ nFail < MaxFailures)
          /\ g.made => nextSid <= MaxSessions
          /\ nextSid' = IF g.made THEN nextSid + 1 ELSE nextSid
          /\ nFail' = IF fails THEN nFail + 1 ELSE nFail
          /\ IF g.ret = None
             THEN /\ Commit([r0 EXCEPT !.e = end_session(g.e)])
                  /\ task' = [others EXCEPT ![t] = Track(Done(tk0, "OtherError"))]
             ELSE LET r1 == cache_adopt(
                              [r0 EXCEPT !.e = g.e,
                                 !.hdrTok = IF g.made THEN NoToken ELSE @,
                                 !.hdrAuth = IF g.made THEN NoToken ELSE @])
                  IN IF r1.token = NoToken /\ login_runs(r1)
                     THEN /\ Commit(login_enter(r1))
                          /\ task' = [others EXCEPT ![t] =
                                Track([tk0 EXCEPT !.pc = "loginSend",
                                                  !.from = "lin", !.nsend = 1])]
                     ELSE /\ Commit(req_enter(r1))
                          /\ task' = [others EXCEPT ![t] =
                                Track([tk0 EXCEPT !.pc = "send", !.i = 0,
                                                  !.nsend = 1,
                                                  !.carried = Carried(req_enter(r1))])]
    /\ UNCHANGED <<reqFrame, valid, nRestart, lastLive>>

\* The response of a normal request arrives (or the send raises
\* RequestsError): the rest of the loop body, _process_resp included, up to
\* the next suspension.
RecvNormal(t, resp) ==
    /\ task[t].pc = "send"
    /\ resp \in NormalResponses(task[t])
    /\ LET r0 == ReqState
           tk == [task[t] EXCEPT
                    !.last401 = resp = "401",
                    !.last = Last(resp),
                    !.hist = Hist(@, resp)]
       IN IF resp = "err" \/ (resp # "401" /\ ~process_resp(resp))
          THEN /\ Commit(r0)
               /\ SetTask(t, [tk EXCEPT !.pc = "sleep"])
          ELSE IF resp = "401"
          THEN IF r0.flag
               THEN \* raise RequestsError("用户名密码错误")
                    /\ Commit(op_exit(r0))
                    /\ SetTask(t, Done(tk, "AuthInvalid"))
               ELSE IF username
               THEN \* _process_resp: await self.login()
                    /\ Commit(login_enter(r0))
                    /\ SetTask(t, [tk EXCEPT !.pc = "loginSend", !.from = "resp",
                                             !.j = 0, !.relog = @ + 1,
                                             !.nsend = CapSends(@ + 1)])
               ELSE \* _process_resp returns True: the 401 response is returned
                    /\ Commit(op_exit(r0))
                    /\ SetTask(t, Done(tk, "returned"))
          ELSE IF resp = "okText"
          THEN \* resp_to_json raises
               /\ Commit(op_exit(r0))
               /\ SetTask(t, Done(tk, "DecodeError"))
          ELSE /\ Commit(op_exit(r0))
               /\ SetTask(t, Done(tk, "returned"))
    /\ UNCHANGED <<reqFrame, nextSid, nFail, valid, nRestart, lastLive>>

\* await asyncio.sleep(...) at the end of the loop body returns: the next
\* attempt is sent with the headers the session has now, or the loop is over
\* and RequestsError("无法连接到服务器.") is raised.
Wake(t) ==
    /\ task[t].pc = "sleep"
    /\ LET r0 == ReqState
       IN IF HasNextTry(task[t].i)
          THEN /\ Commit(r0)
               /\ SetTask(t, [task[t] EXCEPT !.pc = "send", !.i = @ + 1,
                                             !.nsend = CapSends(@ + 1),
                                             !.carried = Carried(r0)])
          ELSE /\ Commit(op_exit(r0))
               /\ SetTask(t, Done(task[t], "ConnectionFailed"))
    /\ UNCHANGED <<reqFrame, nextSid, nFail, valid, nRestart, lastLive>>

\* The response of the authentication request arrives.  k is the AccessToken
\* of an okTok response; wfail says that writing the cache file raises
\* OSError.
RecvLogin(t, resp, k, wfail) ==
    /\ task[t].pc = "loginSend"
    /\ resp \in LoginResponses
    /\ (resp = "okTok") = (k # NoToken)
    /\ wfail => resp \in {"okTok", "okNoTok"}
    /\ LET r0 == ReqState
           tk == [task[t] EXCEPT
                    !.last401 = resp = "401",
                    !.last = "none",
                    !.hist = Hist(@, resp)]
       IN IF resp \in {"err", "502"}
          THEN /\ Commit(r0)
               /\ SetTask(t, [tk EXCEPT !.pc = "loginSleep"])
               /\ UNCHANGED <<valid, lastLive>>
          ELSE IF resp = "401"
          THEN \* attempt_login is set: raise RequestsError("用户名密码错误")
               /\ Commit(op_exit(login_exit(r0)))
               /\ SetTask(t, Done(tk, "AuthInvalid"))
               /\ UNCHANGED <<valid, lastLive>>
          ELSE IF resp = "okText"
          THEN /\ Commit(op_exit(login_exit(r0)))
               /\ SetTask(t, Done(tk, "DecodeError"))
               /\ UNCHANGED <<valid, lastLive>>
          ELSE LET r1 == login_store(r0, k, k, wfail)
               IN /\ valid' = IF k # NoToken THEN valid \cup {k} ELSE valid
                  /\ lastLive' = IF wfail THEN "unwritten" ELSE "stored"
                  /\ IF tk.from = "lin"
                     THEN \* back in _req: _get_session, headers, first send
                          /\ Commit(req_enter(r1))
                          /\ SetTask(t, [tk EXCEPT !.pc = "send", !.from = "none",
                                                   !.i = 0, !.j = 0,
                                                   !.nsend = CapSends(@ + 1),
                                                   !.carried = Carried(req_enter(r1))])
                     ELSE \* _process_resp returns False; the loop body's sleep
                          /\ Commit(r1)
                          /\ SetTask(t, [tk EXCEPT !.pc = "sleep", !.from = "none",
                                                   !.j = 0])
    /\ UNCHANGED <<reqFrame, nextSid, nFail, nRestart>>

\* The sleep in the authentication request's loop returns.
LoginWake(t) ==
    /\ task[t].pc = "loginSleep"
    /\ LET r0 == ReqState
       IN IF HasNextTry(task[t].j)
          THEN /\ Commit(r0)
               /\ SetTask(t, [task[t] EXCEPT !.pc = "loginSend", !.j = @ + 1,
                                             !.nsend = CapSends(@ + 1)])
          ELSE /\ Commit(op_exit(login_exit(r0)))
               /\ SetTask(t, Done(task[t], "ConnectionFailed"))
    /\ UNCHANGED <<reqFrame, nextSid, nFail, valid, nRestart, lastLive>>

\* The task of an operation is cancelled: CancelledError is raised at the
\* await it is suspended in (a send or a sleep), is not caught by
\* except RequestsError, and unwinds through the finally clauses: _post's and
\* login's when the task is inside login(), then the operation's.
Cancel(t) ==
    /\ InFlight(task[t])
    /\ LET r0 == ReqState
           tk == [task[t] EXCEPT !.last401 = FALSE, !.last = "none",
                                 !.hist = "mixed"]
       IN /\ IF task[t].pc \in {"loginSend", "loginSleep"}
             THEN Commit(op_exit(login_exit(r0)))
             ELSE Commit(op_exit(r0))
          /\ SetTask(t, Done(tk, "Cancelled"))
    /\ UNCHANGED <<reqFrame, nextSid, nFail, valid, nRestart, lastLive>>

\* The process ends and a new one constructs a connector for the same host
\* and user: Connector.__init__.  The cache file and the backend stay.
Restart ==
    /\ nRestart < MaxRestarts
    /\ \A t \in Tasks : ~InFlight(task[t])
    /\ \E t \in Tasks : task[t].pc = "done"
    /\ nRestart' = nRestart + 1
    /\ token' = NoToken /\ userid' = NoToken /\ api_key' = NoToken
    /\ attempt_login' = FALSE
    /\ hdrTok' = NoToken /\ hdrAuth' = NoToken
    /\ task' = [t \in Tasks |-> IdleTask]
    /\ keys' = <<>>
    /\ sessions' = [c \in Contexts |-> None]
    /\ session_uses' = [c \in Contexts |-> NoneUses]
    /\ lastLive' = IF lastLive = "stored" /\ token # NoToken
                   THEN "carried" ELSE "none"
    /\ UNCHANGED <<reqFrame, nextSid, nFail, zeroPolls, cache, valid>>

NoCache == [kind |-> "absent", token |-> NoToken, userid |-> NoToken]

\* What the cache file can hold when the connector is constructed: nothing,
\* an entry of an earlier run, a file that is not JSON (or cannot be read),
\* a JSON object without "userid".
InitCaches ==
    {NoCache,
     [kind |-> "ok", token |-> 1, userid |-> 1],
     [kind |-> "garbage", token |-> NoToken, userid |-> NoToken],
     [kind |-> "tokenOnly", token |-> 1, userid |-> NoToken]}

\* ----------------------------------------------------------- Messager.send
\* The send call of one Messager instance: where it is (pc), the need_sec it
\* drew, whether it slept in the loop, the time at which it handed its message
\* to the Telegram client, and whether tg.send_message returned.
IdleMessager ==
    [pc |-> "idle", need |-> 0, slept |-> FALSE, handed |-> NoTime,
     sent |-> FALSE]

\* The condition of the while loop:
\* self.site_last_message_time > datetime.now() - timedelta(seconds=need_sec)
TooEarly(need) == site_last_message_time > now - need

connFrame == <<poolVars, dogVars, histVars, op, username, token, userid,
               api_key, attempt_login, cache, hdrTok, hdrAuth, valid, task,
               nRestart, lastLive>>

\* A second passes.
MsgTick ==
    /\ now < MaxTime
    /\ now' = now + 1
    /\ UNCHANGED <<site_last_message_time, messager, connFrame>>

\* send is called: with a site_last_message_time, need_sec is drawn and the
\* loop's condition is tested; the call then sleeps a second, or goes on to
\* open the ClientsSession.
MsgSendCalled(m, need) ==
    /\ messager[m].pc = "idle"
    /\ IF site_last_message_time = NoTime
       THEN /\ need = MinNeed
            /\ messager' = [messager EXCEPT ![m].pc = "session"]
       ELSE IF TooEarly(need)
       THEN messager' = [messager EXCEPT ![m].pc = "wait", ![m].need = need,
                                         ![m].slept = TRUE]
       ELSE messager' = [messager EXCEPT ![m].pc = "session"]
    /\ UNCHANGED <<now, site_last_message_time, connFrame>>

\* await asyncio.sleep(1) returns and the condition is tested again.
MsgWake(m) ==
    /\ messager[m].pc = "wait"
    /\ IF TooEarly(messager[m].need)
       THEN messager' = messager
       ELSE messager' = [messager EXCEPT ![m].pc = "session", ![m].need = 0]
    /\ UNCHANGED <<now, site_last_message_time, connFrame>>

\* The ClientsSession is open and get_chat has returned:
\* await tg.send_message(self.chat_name, message) hands the message over.
MsgHandOver(m) ==
    /\ messager[m].pc = "session"
    /\ messager' = [messager EXCEPT ![m].pc = "sending", ![m].handed = now]
    /\ UNCHANGED <<now, site_last_message_time, connFrame>>

\* send_message returns (the else clause sets site_last_message_time under
\* site_lock) or raises (the error is logged).
MsgSendDone(m, ok) ==
    /\ messager[m].pc = "sending"
    /\ messager' = [messager EXCEPT ![m].pc = "done", ![m].sent = ok,
                                    ![m].handed = IF ok THEN @ ELSE NoTime]
    /\ site_last_message_time' = IF ok THEN now ELSE site_last_message_time
    /\ UNCHANGED <<now, connFrame>>

\* ------------------------------------------------------------ specification
\* Connector.__init__: empty dicts, the watchdog task created and asleep.
Init ==
    /\ keys = <<>>
    /\ sessions = [c \in Contexts |-> None]
    /\ session_uses = [c \in Contexts |-> NoneUses]
    /\ nextSid = 1
    /\ closed = {}
    /\ abandoned = {}
    /\ nFail = 0
    /\ nReset = 0
    /\ wpc = "sleep"
    /\ counter = [c \in Contexts |-> 0]
    /\ scanPos = 0
    /\ scanLen = 0
    /\ closing = NotClosing
    /\ lockHeld = FALSE
    /\ op = [i \in Ops |-> IdleOp]
    /\ zeroPolls = [c \in Contexts |-> 0]
    /\ busyPolls = [c \in Contexts |-> 0]
    /\ seenNotBusy = [c \in Contexts |-> FALSE]
    /\ reaped = [c \in Contexts |-> FALSE]
    /\ atCancel = {}
    /\ username = TRUE
    /\ token = NoToken
    /\ userid = NoToken
    /\ api_key = NoToken
    /\ attempt_login = FALSE
    /\ cache = NoCache
    /\ hdrTok = NoToken
    /\ hdrAuth = NoToken
    /\ valid = {}
    /\ task = [t \in Tasks |-> IdleTask]
    /\ nRestart = 0
    /\ lastLive = "none"
    /\ now = 0
    /\ site_last_message_time = NoTime
    /\ messager = [m \in Messagers |-> IdleMessager]

Next ==
    \/ \E i \in Ops, c \in Contexts, fails \in BOOLEAN : StreamStart(i, c, fails)
    \/ \E i \in Ops : StreamEnd(i)
    \/ \E c \in Contexts : ResetSession(c)
    \/ WatchdogWake
    \/ WatchdogInspect
    \/ WatchdogCloseDone
    \/ WatchdogCloseRaises
    \/ WatchdogCancel
    \/ ShutdownInspect
    \/ ShutdownCloseDone
    \/ ShutdownCloseTimeout

Spec == Init /\ [][Next]_vars

\* The request operations of one loop, with the watchdog asleep: without
\* _reset_session no reference count is negative, and the watchdog's polls
\* change nothing but its own counter.
InitReq ==
    /\ keys = <<>>
    /\ sessions = [c \in Contexts |-> None]
    /\ session_uses = [c \in Contexts |-> NoneUses]
    /\ nextSid = 1
    /\ closed = {}
    /\ abandoned = {}
    /\ nFail = 0
    /\ nReset = 0
    /\ wpc = "sleep"
    /\ counter = [c \in Contexts |-> 0]
    /\ scanPos = 0
    /\ scanLen = 0
    /\ closing = NotClosing
    /\ lockHeld = FALSE
    /\ op = [i \in Ops |-> IdleOp]
    /\ zeroPolls = [c \in Contexts |-> 0]
    /\ busyPolls = [c \in Contexts |-> 0]
    /\ seenNotBusy = [c \in Contexts |-> FALSE]
    /\ reaped = [c \in Contexts |-> FALSE]
    /\ atCancel = {}
    /\ username \in BOOLEAN
    /\ token = NoToken
    /\ userid = NoToken
    /\ api_key = NoToken
    /\ attempt_login = FALSE
    /\ cache \in InitCaches
    /\ hdrTok = NoToken
    /\ hdrAuth = NoToken
    /\ valid \in {{}, {1}}
    /\ task = [t \in Tasks |-> IdleTask]
    /\ nRestart = 0
    /\ lastLive = "none"
    /\ now = 0
    /\ site_last_message_time = NoTime
    /\ messager = [m \in Messagers |-> IdleMessager]

NextReq ==
    \/ \E t \in Tasks, fails \in BOOLEAN : OpStart(t, fails)
    \/ \E t \in Tasks, resp \in {"ok", "okText", "401", "502", "err"} :
          RecvNormal(t, resp)
    \/ \E t \in Tasks : Wake(t)
    \/ \E t \in Tasks, resp \in LoginResponses, k \in Tokens \cup {NoToken},
          wfail \in BOOLEAN : RecvLogin(t, resp, k, wfail)
    \/ \E t \in Tasks : LoginWake(t)
    \/ \E t \in Tasks : Cancel(t)
    \/ Restart

SpecReq == InitReq /\ [][NextReq]_vars

\* The send calls of the Messager instances of one class.
NextMsg ==
    \/ MsgTick
    \/ \E m \in Messagers, need \in MinNeed..MaxNeed : MsgSendCalled(m, need)
    \/ \E m \in Messagers : MsgWake(m)
    \/ \E m \in Messagers : MsgHandOver(m)
    \/ \E m \in Messagers, ok \in BOOLEAN : MsgSendDone(m, ok)

SpecMsg == Init /\ [][NextMsg]_vars


\* ------------------------------------------------------------------ claims
Busy(c) == session_uses[c] # NoneUses /\ session_uses[c] > 0

\* A step in which the operation of slot i gets a session from _get_session.
Acquires(i) == op[i].pc = "idle" /\ op'[i].pc = "stream"

\* C1: the pool holds at most one session per context.  The sessions
\* registered for two contexts, and the sessions handed to operations of two
\* contexts, are different objects; a _get_session call in a context whose
\* reference count is > 0 returns the session registered for it and
\* constructs nothing; and the session registered for a context does not
\* change over a step that leaves its reference count > 0.
C1_OneSessionPerContext ==
    [][ /\ \A a, b \in Contexts :
              (a # b /\ sessions'[a] # None) => sessions'[a] # sessions'[b]
        /\ \A i, j \in Ops :
              (op'[i].pc = "stream" /\ op'[j].pc = "stream"
               /\ op'[i].ctx # op'[j].ctx) => op'[i].sess # op'[j].sess
        /\ \A i \in Ops :
              (Acquires(i) /\ Busy(op'[i].ctx)) =>
                  /\ op'[i].sess = sessions[op'[i].ctx]
                  /\ nextSid' = nextSid
        /\ \A c \in Contexts :
              (Busy(c) /\ Busy(c)') => sessions'[c] = sessions[c]
      ]_vars

\* Two operations of one context hold the same session, and an operation of
\* the other context has been handed out a session before.
C1_Witness ==
    \E i, j \in Ops :
        /\ i # j
        /\ op[i].pc = "stream" /\ op[j].pc = "stream"
        /\ op[i].ctx = op[j].ctx
        /\ op[i].sess = op[j].sess
        /\ session_uses[op[i].ctx] = 2
        /\ \E c \in Contexts : c # op[i].ctx /\ sessions[c] # None

\* C2: the polling loop of the watchdog closes the session of a context only
\* if one of its polls saw that context's reference count not > 0.
C2_BusyNeverReaped ==
    \A c \in Contexts : reaped[c] => seenNotBusy[c]

\* A context was seen busy at timeout/10 polls in a row, never otherwise,
\* and its session is registered and open.
C2_Witness ==
    \E c \in Contexts :
        /\ busyPolls[c] >= Threshold
        /\ ~seenNotBusy[c]
        /\ sessions[c] # None
        /\ sessions[c] \notin closed

\* C3: a context whose reference count was 0 at timeout/10 polls in a row,
\* and one poll more, without changing in between, has no session registered
\* any more.
C3_IdleReclaimed ==
    \A c \in Contexts : zeroPolls[c] >= Threshold + 1 => sessions[c] = None

\* The step is one in which task t's operation is called and gets past its
\* own _get_session.
Calls(t) == task[t].pc = "idle" /\ task'[t].pc \notin {"idle", "done"}

\* The step is one in which the response of task t's authentication request
\* arrives and login() runs to its end.
LoginReturns(t) == task[t].pc = "loginSend" /\ task'[t].pc \in {"send", "sleep"}

\* What login_if_needed makes of cache file c in a connector that holds no
\* token.
FreshAdopt(c) ==
    cache_adopt([ReqState EXCEPT !.token = NoToken, !.userid = NoToken,
                                 !.api_key = NoToken, !.cache = c])

\* Task tk is inside login(), between setting and clearing attempt_login.
InLogin(tk) == tk.pc \in {"loginSend", "loginSleep"}

\* C4: with no request operation in flight, every reference the operations
\* acquired has been released: the reference count of their context is 0 (or
\* the context has no entry).
C4_ReferencesReleased ==
    (\A t \in Tasks : ~InFlight(task[t])) => UsesVal(session_uses[ReqCtx]) = 0

\* C5: an operation that ran alone with a username configured, whose
\* responses were 401s, logins answered with a token and a final response,
\* and that logged in again after a 401, made exactly one such login, sent
\* its request exactly twice and returned the response of the second send.
C5_OneReauthOneRetry ==
    \A t \in Tasks :
        (/\ username
         /\ task[t].pc = "done" /\ task[t].alone
         /\ task[t].hist = "clean" /\ ~task[t].last401
         /\ task[t].relog >= 1)
        => /\ task[t].relog = 1
           /\ task[t].i = 1
           /\ task[t].result = "returned"

\* C6: the step in which a 401 answers the authentication request of an
\* operation that runs alone ends the operation with the invalid-credentials
\* error: nothing is sent again, no login follows, token and user id are what
\* they were, and attempt_login is cleared.
C6_LoginRejected ==
    [][ \A t \in Tasks :
          (task[t].pc = "loginSend" /\ task'[t] # task[t] /\ task'[t].last401)
          => /\ task'[t].pc = "done"
             /\ task'[t].result = "AuthInvalid"
             /\ task'[t].nsend = task[t].nsend
             /\ task'[t].relog = task[t].relog
             /\ token' = token /\ userid' = userid
             /\ attempt_login' = FALSE
      ]_vars

\* An operation whose login was answered 401 at once has ended with the
\* invalid-credentials error after one send.
C6_Witness ==
    \E t \in Tasks :
        /\ task[t].pc = "done" /\ task[t].alone
        /\ task[t].result = "AuthInvalid"
        /\ task[t].last401
        /\ task[t].nsend = 1
        /\ ~attempt_login

\* C7: an operation that ran alone and whose every send raised a connection
\* error never made more than tries sends and returned nothing; when it has
\* ended, it made exactly tries sends and raised the connection-failure
\* error.
C7_ExactlyTriesSends ==
    \A t \in Tasks :
        (task[t].alone /\ task[t].hist = "allErr")
        => /\ task[t].nsend <= Tries
           /\ task[t].result \in {"none", "ConnectionFailed"}
           /\ task[t].pc = "done" =>
                 /\ task[t].nsend = Tries
                 /\ task[t].result = "ConnectionFailed"

\* An operation has ended after tries sends that all raised.
C7_Witness ==
    \E t \in Tasks :
        /\ task[t].pc = "done" /\ task[t].alone
        /\ task[t].hist = "allErr"
        /\ task[t].nsend = Tries
        /\ task[t].result = "ConnectionFailed"

\* C8 as stated: an operation called while no token is held and the cache
\* file holds an object with "token" and "userid" adopts both and goes to
\* its first send without a login.
C8_CacheAdopted_Stated ==
    [][ \A t \in Tasks :
          (Calls(t) /\ token = NoToken /\ cache.kind = "ok")
          => /\ token' = cache.token
             /\ userid' = cache.userid
             /\ task'[t].pc = "send"
      ]_vars

\* C8: an operation called while no token is held and the cache file holds
\* an object with a non-empty "token" and "userid" adopts both and goes to
\* its first send without a login.
C8_CacheAdopted ==
    [][ \A t \in Tasks :
          (Calls(t) /\ token = NoToken /\ cache.kind = "ok"
           /\ cache.token # NoToken)
          => /\ token' = cache.token
             /\ userid' = cache.userid
             /\ task'[t].pc = "send"
      ]_vars

\* The first operation of a connector that never logged in is at its first
\* send, holding the token and user id of the cache file.
C8_Witness ==
    \E t \in Tasks :
        /\ task[t].pc = "send" /\ task[t].i = 0 /\ task[t].nsend = 1
        /\ task[t].alone
        /\ nRestart = 0 /\ lastLive = "none"
        /\ cache.kind = "ok"
        /\ token # NoToken
        /\ token = cache.token /\ userid = cache.userid

\* C9 as stated: a login that returns with token T and user id U, the cache
\* file being absent, leaves the cache file holding T and U, and a connector
\* without a token adopts T and U from it and needs no login.
C9_RoundTrip_Stated ==
    [][ \A t \in Tasks :
          (LoginReturns(t) /\ cache.kind = "absent")
          => /\ cache' = [kind |-> "ok", token |-> token', userid |-> userid']
             /\ FreshAdopt(cache').token = token'
             /\ FreshAdopt(cache').userid = userid'
             /\ FreshAdopt(cache').token # NoToken
      ]_vars

\* C9: a login that returns with a non-empty token T and user id U, and
\* whose cache write did not raise, leaves the cache file holding T and U
\* (whatever it held before), and a connector without a token adopts T and U
\* from it and needs no login; the file still holds them when the process
\* ends with T as its token; and the first operation of the next process
\* adopts the file's token and user id and goes to its first send without a
\* login.
C9_RoundTrip ==
    [][ /\ \A t \in Tasks :
              (LoginReturns(t) /\ lastLive' = "stored" /\ token' # NoToken)
              => /\ cache' = [kind |-> "ok", token |-> token', userid |-> userid']
                 /\ FreshAdopt(cache').token = token'
                 /\ FreshAdopt(cache').userid = userid'
                 /\ FreshAdopt(cache').token # NoToken
        /\ (nRestart' = nRestart + 1 /\ lastLive = "stored" /\ token # NoToken)
              => /\ cache = [kind |-> "ok", token |-> token, userid |-> userid]
                 /\ lastLive' = "carried"
        /\ \A t \in Tasks :
              (Calls(t) /\ lastLive = "carried")
              => /\ token' = cache.token /\ token' # NoToken
                 /\ userid' = cache.userid
                 /\ task'[t].pc = "send"
      ]_vars

\* The process after one that ended with the token of a stored login is at
\* the first send of its first operation, holding the file's token and user
\* id.
C9_Witness ==
    \E t \in Tasks :
        /\ nRestart = 1 /\ lastLive = "carried"
        /\ task[t].pc = "send" /\ task[t].i = 0 /\ task[t].nsend = 1
        /\ token # NoToken
        /\ token = cache.token /\ userid = cache.userid


\* C11: at most one task is inside login() at any time, and attempt_login is
\* set exactly while one is: a login call made meanwhile returns without
\* sending an authentication request.
C11_OneLoginInFlight ==
    /\ \A t, u \in Tasks : (InLogin(task[t]) /\ InLogin(task[u])) => t = u
    /\ attempt_login = (\E t \in Tasks : InLogin(task[t]))

\* One task's authentication request is in flight, and another task, called
\* meanwhile with no token held, is at its first send without a token.
C11_Witness ==
    \E t, u \in Tasks :
        /\ t # u
        /\ task[t].pc = "loginSend"
        /\ task[u].pc = "send" /\ task[u].i = 0
        /\ task[u].carried = NoToken
        /\ username /\ token = NoToken /\ attempt_login

\* C12: in a step in which the construction of a session raises inside
\* _get_session, the call raises to its caller instead of returning None, and
\* the pool is as it was: no session and no reference count is registered.
C12_ConstructionFailureSurfaced ==
    [][ nFail' = nFail + 1 =>
          /\ \A c \in Contexts :
                Entry(c).sess = None => get_session(Entry(c), nextSid, TRUE).raised
          /\ keys' = keys /\ sessions' = sessions /\ session_uses' = session_uses
      ]_vars

\* C13: a request operation that has ended has returned a response, was
\* cancelled, or raised one of three errors: invalid credentials, decode error, connection
\* failed.
C13_ThreeErrorsOnly ==
    \A t \in Tasks :
        task[t].pc = "done" =>
            task[t].result \in {"returned", "Cancelled", "AuthInvalid",
                                "DecodeError", "ConnectionFailed"}

\* C14: an operation called while no token is held and the cache file is
\* missing, unreadable, not JSON, or an object without "userid", goes to its
\* first send with token, user id and api key as they were; with a username
\* configured and no login in flight, that send is the authentication
\* request.
C14_BadCacheIsMiss ==
    [][ \A t \in Tasks :
          (Calls(t) /\ token = NoToken
           /\ cache.kind \in {"absent", "garbage", "tokenOnly"})
          => /\ token' = token /\ userid' = userid /\ api_key' = api_key
             /\ (username /\ ~attempt_login) => task'[t].pc = "loginSend"
      ]_vars

\* The step is one in which the stream of slot i ends, fails or is cancelled.
Releases(i) == op[i].pc = "stream" /\ op'[i].pc = "idle"

\* C15: get_stream_noreturn takes one reference and releases it exactly once.
\* A call that opens its stream adds one to its context's reference count
\* (None counting as 0), the end of the stream takes one off, and a call
\* whose session could not be constructed, made with no other call in
\* flight, leaves every reference count as it was: so the count after the
\* call is the count before it.
C15_StreamReleasesOnce ==
    [][ /\ \A i \in Ops :
              Acquires(i) =>
                  UsesVal(session_uses'[op'[i].ctx])
                      = UsesVal(session_uses[op'[i].ctx]) + 1
        /\ \A i \in Ops :
              (Releases(i) /\ session_uses[op[i].ctx] # NoneUses) =>
                  session_uses'[op[i].ctx] = session_uses[op[i].ctx] - 1
        /\ (nFail' = nFail + 1 /\ \A i \in Ops : op[i].pc = "idle")
              => session_uses' = session_uses
      ]_vars

\* The step is one in which task t sends an attempt of its own request.
Sends(t) ==
    /\ task'[t].pc = "send"
    /\ task[t].pc # "send" \/ task'[t].i # task[t].i

\* C16: every attempt of a request that is sent while a token is held
\* carries that token: the token current when the attempt is sent.
C16_AttemptCarriesCurrentToken ==
    [][ \A t \in Tasks :
          (Sends(t) /\ token' # NoToken) => task'[t].carried = token'
      ]_vars

\* C17: an operation ends with the invalid-credentials error only in a step
\* in which a response to its own authentication request arrives; a 401 to
\* its normal request never ends it so, whether or not another task's login
\* is in flight.
C17_AuthInvalidOnlyFromLogin ==
    [][ \A t \in Tasks :
          (task[t].pc # "done" /\ task'[t].pc = "done"
           /\ task'[t].result = "AuthInvalid")
          => task[t].pc = "loginSend"
      ]_vars

\* C18: while the watchdog's polling loop is closing the session of a
\* context, the lock that _get_session and _end_session take in that context
\* is held, and no operation of that context acquires a session.
C18_CloseUnderContextLock ==
    [][ wpc = "closing" =>
          /\ LockHeld(closing.ctx)
          /\ \A i \in Ops : Acquires(i) => op'[i].ctx # closing.ctx
      ]_vars

\* C19: attempt_login is false after every step in which a task leaves
\* login() (the login returned, its request was answered 401 or with a body
\* that is not JSON, its attempts were exhausted, or the task was cancelled),
\* and a step that starts a login starts it with the flag clear and sets it.
C19_FlagClearedOnExit ==
    [][ \A t \in Tasks :
          /\ (InLogin(task[t]) /\ ~InLogin(task'[t])) => ~attempt_login'
          /\ (~InLogin(task[t]) /\ InLogin(task'[t]))
                => (~attempt_login /\ attempt_login')
      ]_vars

\* A task was cancelled inside the login its operation began with, and a
\* later operation's login is in flight.
C19_Witness ==
    \E t, u \in Tasks :
        /\ t # u
        /\ task[t].pc = "done" /\ task[t].alone
        /\ task[t].result = "Cancelled"
        /\ task[t].i = -1 /\ task[t].nsend >= 1
        /\ task[u].pc = "loginSend"
        /\ attempt_login

\* The step is the polling loop's inspection of context s.
Polls(s) ==
    /\ wpc = "scan" /\ Len(keys) = scanLen /\ scanPos <= scanLen
    /\ keys[scanPos] = s

\* C20: the polling loop begins to close the session of a context only at
\* the last of timeout/10 polls in a row that saw its reference count at 0;
\* a poll that sees a count that is not 0, or None, leaves the context's
\* counter at zero; and the counter is zero when a close begins.
C20_CloseOnlyAfterIdleTimeout ==
    [][ \A s \in Contexts :
          Polls(s) =>
              /\ wpc' = "closing" =>
                    /\ session_uses[s] = 0
                    /\ zeroPolls[s] >= Threshold - 1
                    /\ counter'[s] = 0
              /\ session_uses[s] # 0 => counter'[s] = 0
      ]_vars

\* C21: neither the inspection of a context by the polling loop nor the
\* close of its session ends the watchdog task: whatever fails there, the
\* scan goes on and the watchdog keeps polling until it is cancelled.
C21_WatchdogSurvivesFailures ==
    [][ (\/ \E s \in Contexts : Polls(s)
         \/ wpc = "closing") => wpc' # "crashed" ]_vars

\* The step is one in which a response to the request of task t arrives.
Receives(t) == task[t].pc = "send" /\ task'[t] # task[t]

\* C22: for an operation that runs alone, a 502, 503 or 504 is not
\* returned: the attempt is over and the loop goes on without a send in that
\* step; an operation whose every response was one of them made tries sends
\* and raised the connection-failure error; and a response with any status
\* other than 401, 502, 503, 504 ends the operation in the step that
\* receives it, returned (or raised as a decode error by an operation that
\* decodes it), with no further send.
C22_ResponseClassification ==
    [][ \A t \in Tasks :
          /\ (Receives(t) /\ task'[t].last = "5xx")
                => /\ task'[t].pc = "sleep"
                   /\ task'[t].result = "none"
                   /\ task'[t].nsend = task[t].nsend
          /\ (Receives(t) /\ task'[t].last = "ok")
                => /\ task'[t].pc = "done"
                   /\ task'[t].result \in {"returned", "DecodeError"}
                   /\ task'[t].nsend = task[t].nsend
          /\ (task'[t].pc = "done" /\ task'[t].hist = "all5xx")
                => /\ task'[t].result = "ConnectionFailed"
                   /\ task'[t].nsend = Tries
      ]_vars

\* An operation that ran alone got a 502 and then, at its second attempt, a
\* response that was returned.
C22_Witness ==
    \E t \in Tasks :
        /\ task[t].pc = "done" /\ task[t].alone
        /\ task[t].result = "returned"
        /\ task[t].last = "ok"
        /\ task[t].hist = "mixed"
        /\ task[t].i = 1 /\ task[t].nsend = 2

\* C23: a session handed to an operation while the watchdog has not been
\* cancelled is open: it is not one the polling loop has closed, nor the one it is closing in that step; and an acquire in
\* a context that has no session registered constructs one and sets the
\* context's reference count to 1.
C23_HandedOutSessionIsOpen ==
    [][ \A i \in Ops :
          (Acquires(i) /\ wpc \in {"sleep", "scan", "closing"}) =>
              /\ op'[i].sess \notin closed
              /\ wpc = "closing" => op'[i].sess # closing.sess
              /\ sessions[op'[i].ctx] = None =>
                    /\ nextSid' = nextSid + 1
                    /\ op'[i].sess = nextSid
                    /\ session_uses'[op'[i].ctx] = 1
      ]_vars

\* The operations of context c that hold a session.
Holders(c) == {i \in Ops : op[i].pc = "stream" /\ op[i].ctx = c}

\* C24: the reference count of every context (None counting as 0) is at
\* least the number of its operations that hold a session, and the count of
\* a registered session is not negative.
C24_CountCoversHolders ==
    \A c \in Contexts :
        /\ UsesVal(session_uses[c]) >= Cardinality(Holders(c))
        /\ sessions[c] # None => UsesVal(session_uses[c]) >= 0

\* C25: a message is handed to the Telegram client only when no
\* site_last_message_time is set or at least 5 seconds have passed since it,
\* and the messages of two sends that succeeded were handed over at least 5
\* seconds apart.
C25_SendsFiveSecondsApart ==
    [][ /\ \A m \in Messagers :
              (messager[m].pc = "session" /\ messager'[m].pc = "sending")
              => \/ site_last_message_time = NoTime
                 \/ now - site_last_message_time >= MinNeed
        /\ \A m, n \in Messagers :
              (m # n /\ messager'[m].sent /\ messager'[n].sent)
              => \/ messager'[m].handed - messager'[n].handed >= MinNeed
                 \/ messager'[n].handed - messager'[m].handed >= MinNeed
      ]_vars

\* C10: when the cancelled watchdog has terminated, every session that was
\* registered at the cancellation is closed or abandoned, unless it was taken
\* out of the pool meanwhile, and none of them is registered in the pool.
C10_ShutdownDrains ==
    wpc = "done" =>
        /\ \A sid \in atCancel :
              \/ sid \in closed \cup abandoned
              \/ \A c \in Contexts : sessions[c] # sid
        /\ \A c \in Contexts : sessions[c] \notin atCancel
====
